---- MODULE Spec2Model ----
(***************************************************************************)
(* Ground-station firmware (Firmware/Ground Station/main.ino): setup(),    *)
(* readChannel(), drawDashboard() and the cooperative loop() with its two  *)
(* elapsed-time schedulers (radio transmit, dashboard redraw).             *)
(*                                                                         *)
(* One action per step of the sketch.  The clock millis() is an external   *)
(* input: it advances while the hardware calls run (analog reads, the      *)
(* blocking LT.transmit(..., WAIT_TX), the display push), by amounts drawn *)
(* from small sets.                                                        *)
(***************************************************************************)
EXTENDS Integers, Sequences, FiniteSets, TLC

\* ------------------------------------------------------------------------
\* Pins (section 1 of the sketch)
\* ------------------------------------------------------------------------
PIN_JOY_YAW == 35
PIN_JOY_THR == 34
PIN_JOY_ROLL == 33
PIN_JOY_PITCH == 32
PIN_KNOB_PITCH == 36
PIN_KNOB_ROLL == 39
PIN_BTN_UP == 13
PIN_BTN_DOWN == 12
PIN_BTN_ARM == 17
PIN_BTN_DISARM == 16
PIN_BATTERY == 25

AnalogPins ==
  {PIN_JOY_YAW, PIN_JOY_THR, PIN_JOY_ROLL, PIN_JOY_PITCH, PIN_KNOB_PITCH, PIN_KNOB_ROLL}

ButtonPins == {PIN_BTN_UP, PIN_BTN_DOWN, PIN_BTN_ARM, PIN_BTN_DISARM}

\* ------------------------------------------------------------------------
\* Bounds of the model (not program constants)
\* ------------------------------------------------------------------------
\* total milliseconds a behaviour may let pass
MaxRun == 130
\* how long before the rollover of millis() the long-uptime initial state lies
RolloverLead == 30
\* time one pass over the input reads lets pass: nothing, a short or a long while
ReadTick == 10
ReadLatency == 20
\* longest time the blocking radio send takes
TxLatency == 3
\* longest time a dashboard redraw takes
DrawLatency == 4
\* time display.begin() / LT.begin() may take during setup
SetupLatency == 60
\* an ADC reading above the 12-bit full scale by this much is drawn as noise
AdcNoise == 905
\* how far beyond the 12-bit range the single-call readings go
ChanNoise == 200

\* ------------------------------------------------------------------------
\* unsigned long (32 bit): a value is <<high 16 bits, low 16 bits>>
\* ------------------------------------------------------------------------
Limb == 65536

U32 == (0 .. Limb - 1) \X (0 .. Limb - 1)

U32Zero == <<0, 0>>

\* a + d for a small non-negative d, modulo 2^32
U32Add(a, d) ==
  LET s == a[2] + d
  IN  IF s < Limb THEN <<a[1], s>> ELSE <<(a[1] + 1) % Limb, s - Limb>>

\* a - b modulo 2^32 (unsigned subtraction)
U32Sub(a, b) ==
  IF a[2] >= b[2]
    THEN <<(a[1] - b[1] + Limb) % Limb, a[2] - b[2]>>
    ELSE <<(a[1] - b[1] - 1 + Limb) % Limb, a[2] - b[2] + Limb>>

\* a > n for a small non-negative n
U32Gt(a, n) == a[1] > 0 \/ a[2] > n

\* unsigned a < b
U32Less(a, b) == a[1] < b[1] \/ (a[1] = b[1] /\ a[2] < b[2])

\* ------------------------------------------------------------------------
\* readChannel
\* ------------------------------------------------------------------------
\* C integer division truncates toward zero
CDiv(a, b) == IF a >= 0 THEN a \div b ELSE -((-a) \div b)

\* Arduino map(x, in_min, in_max, out_min, out_max) in long arithmetic
map(x, in_min, in_max, out_min, out_max) ==
  CDiv((x - in_min) * (out_max - out_min), in_max - in_min) + out_min

\* conversion of the long result to int16_t
ToInt16(v) == ((v + 32768) % 65536) - 32768

\* the remap taking 4096 as the full-scale reading
MapRawFullScale4096(raw) == ToInt16(map(raw, 0, 4096, 1000, 2000))

\* int16_t val = map(raw, 0, 4095, 1000, 2000)
MapRaw(raw) == ToInt16(map(raw, 0, 4095, 1000, 2000))

\* readChannel with the upper clamp forgotten
ClampLowOnly(val) == IF val < 1000 THEN 1000 ELSE val

\* if(val < 1000) val = 1000; if(val > 2000) val = 2000;
Clamp(val) ==
  LET v1 == IF val < 1000 THEN 1000 ELSE val
  IN  IF v1 > 2000 THEN 2000 ELSE v1

\* readChannel inverting the reading before the remap instead of the result
readChannelInvertsReading(raw, invert) ==
  Clamp(MapRaw(IF invert THEN 4095 - raw ELSE raw))

\* readChannel with the ADC reading passed in
readChannel(raw, invert) ==
  LET val == Clamp(MapRaw(raw))
  IN  IF invert THEN 3000 - val ELSE val

\* ------------------------------------------------------------------------
\* Buttons
\* ------------------------------------------------------------------------
\* the buttons taken as active HIGH: a bit is set while its pin reads HIGH
ButtonMaskActiveHigh(low) ==
    (IF PIN_BTN_UP \notin low THEN 1 ELSE 0)
  + (IF PIN_BTN_DOWN \notin low THEN 2 ELSE 0)
  + (IF PIN_BTN_ARM \notin low THEN 4 ELSE 0)
  + (IF PIN_BTN_DISARM \notin low THEN 8 ELSE 0)

\* packet.buttons after lines 188-192; low is the set of pins that read LOW
ButtonMask(low) ==
    (IF PIN_BTN_UP \in low THEN 1 ELSE 0)
  + (IF PIN_BTN_DOWN \in low THEN 2 ELSE 0)
  + (IF PIN_BTN_ARM \in low THEN 4 ELSE 0)
  + (IF PIN_BTN_DISARM \in low THEN 8 ELSE 0)

\* (b & m) != 0 for a single-bit mask m
BitSet(b, m) == (b \div m) % 2 = 1

\* the armed flag also set by the up button
ArmedAfterAnyButton(armed, buttons) ==
  LET a1 == IF BitSet(buttons, 4) \/ BitSet(buttons, 1) THEN TRUE ELSE armed
  IN  IF BitSet(buttons, 8) THEN FALSE ELSE a1

\* the two updates in the other order: the arm bit applied last
ArmedAfterArmLast(armed, buttons) ==
  LET a1 == IF BitSet(buttons, 8) THEN FALSE ELSE armed
  IN  IF BitSet(buttons, 4) THEN TRUE ELSE a1

\* lines 195-196
ArmedAfter(armed, buttons) ==
  LET a1 == IF BitSet(buttons, 4) THEN TRUE ELSE armed
  IN  IF BitSet(buttons, 8) THEN FALSE ELSE a1

\* ------------------------------------------------------------------------
\* Control packet (RC_Input_t) and its bytes on the wire
\* ------------------------------------------------------------------------
\* the zero-initialised global RC_Input_t packet
PacketZero ==
  [throttle |-> 0, roll |-> 0, pitch |-> 0, yaw |-> 0,
   knob_pitch |-> 0, knob_roll |-> 0, buttons |-> 0]

\* the two bytes of an int16_t, low byte first (the target is little-endian)
Int16Bytes(v) ==
  LET u == (v + 65536) % 65536
  IN  <<u % 256, u \div 256>>

\* the struct without __attribute__((packed)): sizeof rounds up to the 2-byte
\* alignment of int16_t and a padding byte follows buttons
PacketBytesUnpacked(p) ==
  Int16Bytes(p.throttle) \o Int16Bytes(p.roll) \o Int16Bytes(p.pitch)
    \o Int16Bytes(p.yaw) \o Int16Bytes(p.knob_pitch) \o Int16Bytes(p.knob_roll)
    \o <<p.buttons, 0>>

\* (uint8_t*)&packet, sizeof(packet): the packed struct read byte by byte
PacketBytes(p) ==
  Int16Bytes(p.throttle) \o Int16Bytes(p.roll) \o Int16Bytes(p.pitch)
    \o Int16Bytes(p.yaw) \o Int16Bytes(p.knob_pitch) \o Int16Bytes(p.knob_roll)
    \o <<p.buttons>>

\* packet after lines 180-192: adc is the reading of each analog pin, low the
\* set of button pins that read LOW
Sample(adc, low) ==
  [yaw        |-> readChannel(adc[PIN_JOY_YAW], FALSE),
   throttle   |-> readChannel(adc[PIN_JOY_THR], FALSE),
   roll       |-> readChannel(adc[PIN_JOY_ROLL], FALSE),
   pitch      |-> readChannel(adc[PIN_JOY_PITCH], FALSE),
   knob_pitch |-> readChannel(adc[PIN_KNOB_PITCH], FALSE),
   knob_roll  |-> readChannel(adc[PIN_KNOB_ROLL], FALSE),
   buttons    |-> ButtonMask(low)]

\* ------------------------------------------------------------------------
\* Schedulers
\* ------------------------------------------------------------------------
TxThreshold == 20
UiThreshold == 100

\* the transmit cycle firing already when the elapsed time equals the threshold
TransmitCycleAtThreshold(g, clock) ==
  [fire  |-> U32Gt(U32Sub(clock, g.last_tx_time), TxThreshold - 1),
   bytes |-> PacketBytes(g.packet)]

\* the transmit cycle sending only while the armed flag is set
TransmitCycleWhenArmed(g, clock) ==
  [fire  |-> U32Gt(U32Sub(clock, g.last_tx_time), TxThreshold) /\ g.local_armed_state,
   bytes |-> PacketBytes(g.packet)]

\* the transmit test written as a comparison with a deadline,
\* millis() > last_tx_time + 20, whose sum overflows before the rollover
TransmitCycleDeadlineCompare(g, clock) ==
  [fire  |-> U32Less(U32Add(g.last_tx_time, TxThreshold), clock),
   bytes |-> PacketBytes(g.packet)]

\* the transmit cycle with the interval taken twice as long
TransmitCycleDoubleInterval(g, clock) ==
  [fire  |-> U32Gt(U32Sub(clock, g.last_tx_time), 2 * TxThreshold),
   bytes |-> PacketBytes(g.packet)]

\* millis() - last_tx_time > 20, and what LT.transmit is handed; g holds the
\* globals of the sketch, clock the value millis() returns
TransmitCycle(g, clock) ==
  [fire  |-> U32Gt(U32Sub(clock, g.last_tx_time), TxThreshold),
   bytes |-> PacketBytes(g.packet)]

\* the timestamp taken from the clock reading of the check instead
TxStampChecked(checked, after) == checked

\* last_tx_time = millis(): the clock is read again after the send returned
TxStamp(checked, after) == after

\* the display redrawn in every iteration
UiDueAlways(clock, last) == TRUE

\* the display check made against the transmit interval
UiDueTxInterval(clock, last) == U32Gt(U32Sub(clock, last), TxThreshold)

\* millis() - last_ui_time > 100
UiDue(clock, last) == U32Gt(U32Sub(clock, last), UiThreshold)

\* last_ui_time = millis(): the clock is read again after drawDashboard returned
UiStamp(checked, after) == after

\* bat_pct without the two constraining lines 148-149
BatPctUnconstrained(raw) == CDiv(6600 * raw - 13513500, 36855)

\* bat_pct of drawDashboard: (raw / 4095 * 3.3 * 2 - 3.3) / (4.2 - 3.3) * 100,
\* truncated toward zero, then constrained to 0..100. The quotient is a whole
\* number only at the readings 819 and 3276, where the result is constrained
\* anyway, so the rounding of the floating-point evaluation never moves the
\* truncated value.
BatPct(raw) ==
  LET pct == CDiv(6600 * raw - 13513500, 36855)
      p1  == IF pct > 100 THEN 100 ELSE pct
  IN  IF p1 < 0 THEN 0 ELSE p1

\* what drawDashboard puts on the panel
drawDashboard(bat_raw, armed, p) ==
  [bat_pct |-> BatPct(bat_raw),
   status  |-> IF armed THEN "ARMED" ELSE "DISARMED",
   throttle |-> p.throttle, roll |-> p.roll, pitch |-> p.pitch]

\* ------------------------------------------------------------------------
\* Inputs the model draws
\* ------------------------------------------------------------------------
\* readings of the six analog pins: in range, at the ends of the range and
\* beyond the 12-bit full scale
AdcScenes ==
  { [p \in AnalogPins |->
       CASE p = PIN_JOY_YAW    -> 0
         [] p = PIN_JOY_THR    -> 4095
         [] p = PIN_JOY_ROLL   -> 2048
         [] p = PIN_JOY_PITCH  -> 1000
         [] p = PIN_KNOB_PITCH -> 4095 + AdcNoise
         [] OTHER              -> 3000],
    [p \in AnalogPins |->
       CASE p = PIN_JOY_YAW    -> 4095
         [] p = PIN_JOY_THR    -> 1
         [] p = PIN_JOY_ROLL   -> 4094
         [] p = PIN_JOY_PITCH  -> 65535
         [] p = PIN_KNOB_PITCH -> 2047
         [] OTHER              -> 0 - AdcNoise] }

BatteryReadings == {0, 2300}

ReadDurations == {ReadTick, ReadLatency}
TxDurations == {0, TxLatency}
DrawDurations == {0, DrawLatency}
SetupDurations == {0, SetupLatency}

\* the longest time from one visit of a check to the next visit of the same
\* check: the slowest reads, a send and a redraw that both take their time
LoopPeriodMax == ReadLatency + TxLatency + DrawLatency

\* ------------------------------------------------------------------------
\* State
\* ------------------------------------------------------------------------
VARIABLES
  pc,                \* where the sketch is: setup_oled, setup_radio, halt_oled,
                     \* halt_radio, read, tx, ui, end
  now,               \* what millis() returns
  run,               \* milliseconds passed since the initial state
  packet,            \* RC_Input_t packet
  last_tx_time,      \* unsigned long last_tx_time
  last_ui_time,      \* static unsigned long last_ui_time
  local_armed_state, \* bool local_armed_state
  oled,              \* display.begin(): "pending", "ok", "failed"
  radio,             \* LT.begin(): "pending", "ok", "failed"
  screen,            \* the frame on the panel: "off", "splash", "radio_error", "dashboard"
  serial,            \* the last line printed to Serial
  it,                \* record of the current loop iteration
  twin,              \* a second run fed the same readings with the other armed flag
  chan               \* a single call on its own: its arguments and its result

vars ==
  <<pc, now, run, packet, last_tx_time, last_ui_time, local_armed_state,
    oled, radio, screen, serial, it, twin, chan>>

\* all analog pins at zero: the placeholder before any reading was taken
AdcNone == [p \in AnalogPins |-> 0]

\* the placeholder for "nothing drawn"
ShownNone == [bat_pct |-> 0, status |-> "", throttle |-> 0, roll |-> 0, pitch |-> 0]

\* nothing has happened yet in this iteration
IterIdle ==
  [sampled |-> FALSE, adc |-> AdcNone, low |-> {}, prev_armed |-> FALSE,
   tx_checked |-> FALSE, tx_check |-> U32Zero, tx_last |-> U32Zero, tx_sends |-> 0,
   sent |-> <<>>, tx_ok |-> FALSE, tx_after |-> U32Zero,
   ui_checked |-> FALSE, ui_check |-> U32Zero, ui_last |-> U32Zero, ui_draws |-> 0,
   shown |-> ShownNone, ui_after |-> U32Zero]

ChanIdle == [pc |-> "idle", raw |-> 0, invert |-> FALSE, val |-> 0]

\* the globals of the sketch
Globals ==
  [packet |-> packet, last_tx_time |-> last_tx_time,
   local_armed_state |-> local_armed_state]

\* the globals of the twin run: same packet, its own flag and timestamp
TwinGlobals ==
  [packet |-> packet, last_tx_time |-> twin.last_tx_time,
   local_armed_state |-> twin.armed]

\* d milliseconds pass
Tick(d) ==
  /\ run + d <= MaxRun
  /\ run' = run + d
  /\ now' = U32Add(now, d)

\* power-on: globals zero-initialised, setup() about to run
BootInit ==
  /\ pc = "setup_oled"
  /\ now = U32Zero
  /\ run = 0
  /\ packet = PacketZero
  /\ last_tx_time = U32Zero
  /\ last_ui_time = U32Zero
  /\ local_armed_state = FALSE
  /\ oled = "pending"
  /\ radio = "pending"
  /\ screen = "off"
  /\ serial = ""
  /\ it = IterIdle
  /\ twin = [armed |-> TRUE, last_tx_time |-> U32Zero, sends |-> 0, sent |-> <<>>]
  /\ chan = ChanIdle

\* the sketch at the top of loop(), in the iteration after one in which both
\* schedulers fired at the same clock value, no arm or disarm button pressed so
\* far; reached from power-on (at other clock values) under Spec
UptimeShape ==
  /\ pc = "read"
  /\ \E adc \in AdcScenes : packet = Sample(adc, {})
  /\ last_tx_time = now
  /\ last_ui_time = now
  /\ local_armed_state = FALSE
  /\ oled = "ok"
  /\ radio = "ok"
  /\ screen = "dashboard"
  /\ serial = "SX1280 Found"
  /\ it = IterIdle
  /\ twin = [armed |-> TRUE, last_tx_time |-> now, sends |-> 0, sent |-> <<>>]

\* that state after 2^32 - RolloverLead ms of uptime
UptimeInit ==
  /\ now = U32Sub(U32Zero, <<0, RolloverLead>>)
  /\ run = 0
  /\ chan = ChanIdle
  /\ UptimeShape

Init == BootInit

\* power-on, or the sketch shortly before millis() rolls over
RolloverInit == BootInit \/ UptimeInit

\* ------------------------------------------------------------------------
\* Order of the steps of loop()
\* ------------------------------------------------------------------------
\* the transmit and display checks placed before the reads
LoopOrderChecksFirst == <<"tx", "ui", "read", "end">>

\* the order of the steps of loop(): read inputs, transmit cycle, display
\* update, return
LoopOrder == <<"read", "tx", "ui", "end">>

\* the step that follows step p; after the last one loop() is entered again
PcAfter(p) ==
  LET i == CHOOSE k \in 1 .. Len(LoopOrder) : LoopOrder[k] = p
  IN  IF i = Len(LoopOrder) THEN LoopOrder[1] ELSE LoopOrder[i + 1]

\* ------------------------------------------------------------------------
\* setup()
\* ------------------------------------------------------------------------
\* display.begin() succeeds: splash screen is drawn
SetupOledOk ==
  /\ pc = "setup_oled"
  /\ \E d \in SetupDurations : Tick(d)
  /\ oled' = "ok"
  /\ screen' = "splash"
  /\ pc' = "setup_radio"
  /\ UNCHANGED <<packet, last_tx_time, last_ui_time, local_armed_state, radio,
                 serial, it, twin, chan>>

\* display.begin() fails and setup() goes on to the radio (no for(;;);)
SetupOledFailFallsThrough ==
  /\ pc = "setup_oled"
  /\ \E d \in SetupDurations : Tick(d)
  /\ oled' = "failed"
  /\ serial' = "OLED Failed"
  /\ pc' = "setup_radio"
  /\ UNCHANGED <<packet, last_tx_time, last_ui_time, local_armed_state, radio,
                 screen, it, twin, chan>>

\* display.begin() fails: "OLED Failed", for(;;);
SetupOledFail ==
  /\ pc = "setup_oled"
  /\ \E d \in SetupDurations : Tick(d)
  /\ oled' = "failed"
  /\ serial' = "OLED Failed"
  /\ pc' = "halt_oled"
  /\ UNCHANGED <<packet, last_tx_time, last_ui_time, local_armed_state, radio,
                 screen, it, twin, chan>>

\* LT.begin() succeeds
SetupRadioOk ==
  /\ pc = "setup_radio"
  /\ \E d \in SetupDurations : Tick(d)
  /\ radio' = "ok"
  /\ serial' = "SX1280 Found"
  /\ pc' = LoopOrder[1]
  /\ UNCHANGED <<packet, last_tx_time, last_ui_time, local_armed_state, oled,
                 screen, it, twin, chan>>

\* LT.begin() fails: "SX1280 Error", RADIO ERROR on the panel, while(1);
SetupRadioFail ==
  /\ pc = "setup_radio"
  /\ \E d \in SetupDurations : Tick(d)
  /\ radio' = "failed"
  /\ serial' = "SX1280 Error"
  /\ screen' = "radio_error"
  /\ pc' = "halt_radio"
  /\ UNCHANGED <<packet, last_tx_time, last_ui_time, local_armed_state, oled,
                 it, twin, chan>>

\* ------------------------------------------------------------------------
\* loop()
\* ------------------------------------------------------------------------
\* lines 180-196: the six channel reads, the button reads, the armed flag
ReadInputs ==
  /\ pc = "read"
  /\ \E d \in ReadDurations : Tick(d)
  /\ \E adc \in AdcScenes, low \in SUBSET ButtonPins :
       /\ packet' = Sample(adc, low)
       /\ it' = [it EXCEPT !.sampled = TRUE, !.adc = adc, !.low = low,
                                 !.prev_armed = local_armed_state]
  /\ local_armed_state' = ArmedAfter(local_armed_state, packet'.buttons)
  /\ twin' = [twin EXCEPT !.armed = ArmedAfter(twin.armed, packet'.buttons)]
  /\ pc' = PcAfter("read")
  /\ UNCHANGED <<last_tx_time, last_ui_time, oled, radio, screen, serial, chan>>

\* the twin run takes the same step of the transmit cycle on its own globals,
\* seeing the clock readings of this run
TwinTransmit(clock, after) ==
  LET c == TransmitCycle(TwinGlobals, clock)
  IN  IF c.fire
        THEN [twin EXCEPT !.last_tx_time = TxStamp(clock, after),
                          !.sends = twin.sends + 1, !.sent = c.bytes]
        ELSE twin

\* the timestamp updated only when LT.transmit reports success, so that a failed
\* send is tried again in the next iteration
TxFireStampOnSuccess ==
  /\ pc = "tx"
  /\ TransmitCycle(Globals, now).fire
  /\ \E d \in TxDurations : Tick(d)
  /\ \E ok \in BOOLEAN :
       /\ it' = [it EXCEPT !.tx_checked = TRUE, !.tx_check = now, !.tx_last = last_tx_time,
                           !.tx_sends = it.tx_sends + 1,
                           !.sent = TransmitCycle(Globals, now).bytes,
                           !.tx_ok = ok, !.tx_after = now']
       /\ last_tx_time' = IF ok THEN TxStamp(now, now') ELSE last_tx_time
  /\ twin' = TwinTransmit(now, now')
  /\ pc' = PcAfter("tx")
  /\ UNCHANGED <<packet, last_ui_time, local_armed_state, oled, radio, screen,
                 serial, chan>>

\* a failed send treated like a failed LT.begin(): the sketch stops in while(1)
TxFireHaltsOnFailure ==
  /\ pc = "tx"
  /\ TransmitCycle(Globals, now).fire
  /\ \E d \in TxDurations : Tick(d)
  /\ \E ok \in BOOLEAN :
       /\ it' = [it EXCEPT !.tx_checked = TRUE, !.tx_check = now, !.tx_last = last_tx_time,
                           !.tx_sends = it.tx_sends + 1,
                           !.sent = TransmitCycle(Globals, now).bytes,
                           !.tx_ok = ok, !.tx_after = now']
       /\ pc' = IF ok THEN PcAfter("tx") ELSE "halt_radio"
  /\ last_tx_time' = TxStamp(now, now')
  /\ twin' = TwinTransmit(now, now')
  /\ UNCHANGED <<packet, last_ui_time, local_armed_state, oled, radio, screen,
                 serial, chan>>

\* lines 199-203, the interval has passed: LT.transmit, then last_tx_time = millis().
\* The send blocks for d ms; its result ok is not looked at.
TxFire ==
  /\ pc = "tx"
  /\ TransmitCycle(Globals, now).fire
  /\ \E d \in TxDurations : Tick(d)
  /\ \E ok \in BOOLEAN :
       it' = [it EXCEPT !.tx_checked = TRUE, !.tx_check = now, !.tx_last = last_tx_time,
                        !.tx_sends = it.tx_sends + 1,
                        !.sent = TransmitCycle(Globals, now).bytes,
                        !.tx_ok = ok, !.tx_after = now']
  /\ last_tx_time' = TxStamp(now, now')
  /\ twin' = TwinTransmit(now, now')
  /\ pc' = PcAfter("tx")
  /\ UNCHANGED <<packet, last_ui_time, local_armed_state, oled, radio, screen,
                 serial, chan>>

\* lines 199-203, the interval has not passed
TxSkip ==
  /\ pc = "tx"
  /\ ~TransmitCycle(Globals, now).fire
  /\ it' = [it EXCEPT !.tx_checked = TRUE, !.tx_check = now, !.tx_last = last_tx_time,
                      !.tx_after = now]
  /\ twin' = TwinTransmit(now, now)
  /\ pc' = PcAfter("tx")
  /\ UNCHANGED <<now, run, packet, last_tx_time, last_ui_time, local_armed_state,
                 oled, radio, screen, serial, chan>>

\* the display update writing the transmit timestamp as well (one shared timestamp)
UiFireSharedStamp ==
  /\ pc = "ui"
  /\ UiDue(now, last_ui_time)
  /\ \E d \in DrawDurations : Tick(d)
  /\ \E bat \in BatteryReadings :
       it' = [it EXCEPT !.ui_checked = TRUE, !.ui_check = now, !.ui_last = last_ui_time,
                        !.ui_draws = it.ui_draws + 1,
                        !.shown = drawDashboard(bat, local_armed_state, packet),
                        !.ui_after = now']
  /\ screen' = "dashboard"
  /\ last_ui_time' = UiStamp(now, now')
  /\ last_tx_time' = last_ui_time'
  /\ pc' = PcAfter("ui")
  /\ UNCHANGED <<packet, local_armed_state, oled, radio, serial, twin, chan>>

\* lines 206-210, the interval has passed: drawDashboard, then last_ui_time = millis()
UiFire ==
  /\ pc = "ui"
  /\ UiDue(now, last_ui_time)
  /\ \E d \in DrawDurations : Tick(d)
  /\ \E bat \in BatteryReadings :
       it' = [it EXCEPT !.ui_checked = TRUE, !.ui_check = now, !.ui_last = last_ui_time,
                        !.ui_draws = it.ui_draws + 1,
                        !.shown = drawDashboard(bat, local_armed_state, packet),
                        !.ui_after = now']
  /\ screen' = "dashboard"
  /\ last_ui_time' = UiStamp(now, now')
  /\ pc' = PcAfter("ui")
  /\ UNCHANGED <<packet, last_tx_time, local_armed_state, oled, radio, serial,
                 twin, chan>>

\* lines 206-210, the interval has not passed
UiSkip ==
  /\ pc = "ui"
  /\ ~UiDue(now, last_ui_time)
  /\ it' = [it EXCEPT !.ui_checked = TRUE, !.ui_check = now, !.ui_last = last_ui_time,
                      !.ui_after = now]
  /\ pc' = PcAfter("ui")
  /\ UNCHANGED <<now, run, packet, last_tx_time, last_ui_time, local_armed_state,
                 oled, radio, screen, serial, twin, chan>>

\* loop() returns and is called again
LoopReturn ==
  /\ pc = "end"
  /\ it' = IterIdle
  /\ twin' = [twin EXCEPT !.sends = 0, !.sent = <<>>]
  /\ pc' = PcAfter("end")
  /\ UNCHANGED <<now, run, packet, last_tx_time, last_ui_time, local_armed_state,
                 oled, radio, screen, serial, chan>>

Next ==
  \/ SetupOledOk
  \/ SetupOledFail
  \/ SetupRadioOk
  \/ SetupRadioFail
  \/ ReadInputs
  \/ TxFire
  \/ TxSkip
  \/ UiFire
  \/ UiSkip
  \/ LoopReturn

\* the sketch from power-on
Spec == Init /\ [][Next]_vars

\* the sketch from power-on and across the rollover of millis()
SpecRollover == RolloverInit /\ [][Next]_vars

\* the reads of an iteration with the sticks left alone and at most the disarm
\* button pressed
ReadInputsAtRest ==
  /\ ReadInputs
  /\ it'.adc[PIN_JOY_YAW] = 0
  /\ it'.low \subseteq {PIN_BTN_DISARM}

NextAtRest ==
  \/ SetupOledOk
  \/ SetupOledFail
  \/ SetupRadioOk
  \/ SetupRadioFail
  \/ ReadInputsAtRest
  \/ TxFire
  \/ TxSkip
  \/ UiFire
  \/ UiSkip
  \/ LoopReturn

\* the sketch with the processor never stopping: it is the only thread and
\* every call it makes returns, so a step that can be taken is taken. What the
\* sticks and buttons read plays no part in whether a step can be taken.
SpecLive == RolloverInit /\ [][NextAtRest]_vars /\ WF_vars(NextAtRest)

\* ------------------------------------------------------------------------
\* readChannel on its own: one call for every reading and either invert flag
\* ------------------------------------------------------------------------
\* the readings a call is given: the 12-bit range, ChanNoise beyond it on either
\* side, and readings far outside (the last two overflow int16_t after map)
ChanReadings ==
  ((0 - ChanNoise) .. (4095 + ChanNoise)) \cup {65535, 140000, 270418}

ChanInit ==
  /\ pc = "harness"
  /\ now = U32Zero
  /\ run = 0
  /\ packet = PacketZero
  /\ last_tx_time = U32Zero
  /\ last_ui_time = U32Zero
  /\ local_armed_state = FALSE
  /\ oled = "pending"
  /\ radio = "pending"
  /\ screen = "off"
  /\ serial = ""
  /\ it = IterIdle
  /\ twin = [armed |-> TRUE, last_tx_time |-> U32Zero, sends |-> 0, sent |-> <<>>]
  /\ \E r \in ChanReadings, i \in BOOLEAN :
       chan = [pc |-> "call", raw |-> r, invert |-> i, val |-> 0]

\* int16_t v = readChannel(pin, invert) with analogRead(pin) = chan.raw
ChanCall ==
  /\ chan.pc = "call"
  /\ chan' = [chan EXCEPT !.pc = "ret", !.val = readChannel(chan.raw, chan.invert)]
  /\ UNCHANGED <<pc, now, run, packet, last_tx_time, last_ui_time, local_armed_state,
                 oled, radio, screen, serial, it, twin>>

ChanNext == ChanCall

SpecChan == ChanInit /\ [][ChanNext]_vars

\* ------------------------------------------------------------------------
\* The packet handed to the radio on its own: one send for every packet value
\* ------------------------------------------------------------------------
\* values of the int16_t fields: both ends of the type, -1 (all bits set), a
\* stick value with two different bytes, the upper end of the channel range
WireValues == {-32768, -1, 1234, 2000}

\* values of the buttons byte: none, down and disarm, all eight bits
WireButtons == {0, 10, 255}

WireInit ==
  /\ pc = "harness"
  /\ now = U32Zero
  /\ run = 0
  /\ packet \in [throttle : WireValues, roll : WireValues, pitch : WireValues,
                 yaw : WireValues, knob_pitch : WireValues, knob_roll : WireValues,
                 buttons : WireButtons]
  /\ last_tx_time = U32Zero
  /\ last_ui_time = U32Zero
  /\ local_armed_state = FALSE
  /\ oled = "pending"
  /\ radio = "pending"
  /\ screen = "off"
  /\ serial = ""
  /\ it = IterIdle
  /\ twin = [armed |-> TRUE, last_tx_time |-> U32Zero, sends |-> 0, sent |-> <<>>]
  /\ chan = [pc |-> "call", bytes |-> <<>>]

\* LT.transmit((uint8_t*)&packet, sizeof(packet), ...): chan.bytes is what the
\* radio is handed
WireCall ==
  /\ chan.pc = "call"
  /\ chan' = [chan EXCEPT !.pc = "ret", !.bytes = TransmitCycle(Globals, now).bytes]
  /\ UNCHANGED <<pc, now, run, packet, last_tx_time, last_ui_time, local_armed_state,
                 oled, radio, screen, serial, it, twin>>

WireNext == WireCall

SpecWire == WireInit /\ [][WireNext]_vars

\* ------------------------------------------------------------------------
\* drawDashboard on its own: one redraw for every battery reading
\* ------------------------------------------------------------------------
\* the 12-bit readings of analogRead(PIN_BATTERY)
DashReadings == 0 .. 4095

DashInit ==
  /\ pc = "harness"
  /\ now = U32Zero
  /\ run = 0
  /\ packet = PacketZero
  /\ last_tx_time = U32Zero
  /\ last_ui_time = U32Zero
  /\ local_armed_state \in BOOLEAN
  /\ oled = "ok"
  /\ radio = "ok"
  /\ screen = "splash"
  /\ serial = "SX1280 Found"
  /\ it = IterIdle
  /\ twin = [armed |-> TRUE, last_tx_time |-> U32Zero, sends |-> 0, sent |-> <<>>]
  /\ \E r \in DashReadings : chan = [pc |-> "call", raw |-> r, shown |-> ShownNone]

\* drawDashboard() with analogRead(PIN_BATTERY) = chan.raw
DashCall ==
  /\ chan.pc = "call"
  /\ chan' = [chan EXCEPT !.pc = "ret",
                          !.shown = drawDashboard(chan.raw, local_armed_state, packet)]
  /\ screen' = "dashboard"
  /\ UNCHANGED <<pc, now, run, packet, last_tx_time, last_ui_time, local_armed_state,
                 oled, radio, serial, it, twin>>

DashNext == DashCall

SpecDash == DashInit /\ [][DashNext]_vars

\* ------------------------------------------------------------------------
\* Properties
\* ------------------------------------------------------------------------
InUnitRange(v) == v >= 1000 /\ v <= 2000

\* the elapsed time the transmit check of this iteration computed
TxElapsed == U32Sub(it.tx_check, it.tx_last)

\* the elapsed time the display check of this iteration computed
UiElapsed == U32Sub(it.ui_check, it.ui_last)

ArmBit(b) == BitSet(b, 4)
DisarmBit(b) == BitSet(b, 8)

\* C1: once the six channels have been read in an iteration, and from then on,
\* every calibrated field of the packet lies in [1000, 2000], whatever the
\* readings were (in range or not); the same readings with the invert flag set
\* give values in [1000, 2000] too.
C1_CalibratedInRange ==
  pc \in {"tx", "ui", "end"} =>
    /\ InUnitRange(packet.throttle) /\ InUnitRange(packet.roll)
    /\ InUnitRange(packet.pitch) /\ InUnitRange(packet.yaw)
    /\ InUnitRange(packet.knob_pitch) /\ InUnitRange(packet.knob_roll)
    /\ \A p \in AnalogPins : InUnitRange(readChannel(it.adc[p], TRUE))

\* an iteration has finished whose readings were beyond full scale on one pin
\* and negative on another, and the two fields sit on the clamps
C1_Witness ==
  /\ pc = "end"
  /\ it.adc[PIN_JOY_PITCH] > 4095 /\ packet.pitch = 2000
  /\ it.adc[PIN_KNOB_ROLL] < 0 /\ packet.knob_roll = 1000
  /\ it.adc[PIN_JOY_ROLL] = 4094 /\ packet.roll = 1999

\* C2 as stated: exactly one send whenever the elapsed time at the check is
\* at least 20 ms, at most one otherwise.
C2_SendAtOrPastThreshold ==
  it.tx_checked =>
    /\ U32Gt(TxElapsed, TxThreshold - 1) => it.tx_sends = 1
    /\ ~U32Gt(TxElapsed, TxThreshold - 1) => it.tx_sends <= 1

\* C2 amended: an iteration sends exactly once when the elapsed time at the
\* check exceeds 20 ms, however far, and does not send when it is 20 ms or
\* less; never more than one send per iteration.
C2_SendPastThreshold ==
  /\ it.tx_sends <= 1
  /\ ~it.tx_checked => it.tx_sends = 0
  /\ it.tx_checked => it.tx_sends = (IF U32Gt(TxElapsed, TxThreshold) THEN 1 ELSE 0)

\* a check made several intervals late still gave a single send
C2_Witness ==
  /\ it.tx_checked
  /\ U32Gt(TxElapsed, 3 * TxThreshold)
  /\ it.tx_sends = 1

\* C3 as stated: the flag goes false -> true only when the arm bit went from
\* clear in the previous iteration to set in this one, and true -> false only
\* when the disarm bit did.
C3_EdgeTriggered ==
  [][ /\ (~local_armed_state /\ local_armed_state') =>
           (~ArmBit(packet.buttons) /\ ArmBit(packet'.buttons))
      /\ (local_armed_state /\ ~local_armed_state') =>
           (~DisarmBit(packet.buttons) /\ DisarmBit(packet'.buttons)) ]_vars

\* C3 amended: the flag goes false -> true only in an iteration whose bitmask
\* has the arm bit set and the disarm bit clear (the arm bit may have been set
\* in the previous iteration already); it goes true -> false only in an
\* iteration where the disarm bit went from clear to set; with both bits clear
\* it keeps its value, whatever the other bits are.
C3_LevelTriggered ==
  [][ /\ (~local_armed_state /\ local_armed_state') =>
           (ArmBit(packet'.buttons) /\ ~DisarmBit(packet'.buttons))
      /\ (local_armed_state /\ ~local_armed_state') =>
           (~DisarmBit(packet.buttons) /\ DisarmBit(packet'.buttons))
      /\ (~ArmBit(packet'.buttons) /\ ~DisarmBit(packet'.buttons)) =>
           local_armed_state' = local_armed_state
      /\ packet' = packet => local_armed_state' = local_armed_state ]_vars

\* the flag has just gone false -> true in an iteration that also saw the up
\* and down buttons
C3_Witness ==
  /\ pc = "tx"
  /\ ~it.prev_armed /\ local_armed_state
  /\ it.low = {PIN_BTN_UP, PIN_BTN_DOWN, PIN_BTN_ARM}

\* the packet the reads of this iteration produce
FreshSample == Sample(it.adc, it.low)

\* C4: the transmit check and the display check are reached only after the
\* reads of the same iteration; the bytes handed to the radio and the values
\* drawn are those of this iteration's sample, the status drawn is the armed
\* flag as this iteration's buttons left it.
C4_SampleBeforeChecks ==
  /\ (it.tx_checked \/ it.ui_checked) => it.sampled
  /\ pc \in {"tx", "ui", "end"} => it.sampled /\ packet = FreshSample
  /\ it.tx_sends > 0 => it.sent = PacketBytes(FreshSample)
  /\ it.ui_draws > 0 =>
       /\ it.shown.throttle = FreshSample.throttle
       /\ it.shown.roll = FreshSample.roll
       /\ it.shown.pitch = FreshSample.pitch
       /\ it.shown.status =
            (IF ArmedAfter(it.prev_armed, FreshSample.buttons) THEN "ARMED" ELSE "DISARMED")

\* an iteration that sampled (throttle stick at reading 1, down button
\* pressed), then both sent and redrew
C4_Witness ==
  /\ pc = "end"
  /\ it.tx_sends = 1 /\ it.ui_draws = 1
  /\ it.adc[PIN_JOY_THR] = 1 /\ it.shown.throttle = 1000
  /\ it.low = {PIN_BTN_DOWN}

\* C5 as stated: after a firing the timestamp equals the clock reading that was
\* compared against the threshold.
C5_StampIsCheckedClock ==
  /\ it.tx_sends > 0 => last_tx_time = it.tx_check
  /\ it.ui_draws > 0 => last_ui_time = it.ui_check

\* C5 amended: after a firing the timestamp equals the clock reading taken
\* after the send (the redraw) has returned, which is the compared reading plus
\* the time the call took.
C5_StampIsClockAfterCall ==
  /\ it.tx_sends > 0 =>
       /\ last_tx_time = it.tx_after
       /\ \E d \in TxDurations : last_tx_time = U32Add(it.tx_check, d)
  /\ it.ui_draws > 0 =>
       /\ last_ui_time = it.ui_after
       /\ \E d \in DrawDurations : last_ui_time = U32Add(it.ui_check, d)

\* both schedulers fired in one iteration and both calls took time
C5_Witness ==
  /\ pc = "end"
  /\ it.tx_sends = 1 /\ last_tx_time = U32Add(it.tx_check, TxLatency)
  /\ it.ui_draws = 1 /\ last_ui_time = U32Add(it.ui_check, DrawLatency)

\* C6 as stated: neither timestamp ever takes a smaller value.
C6_NeverDecrease ==
  [][ /\ ~U32Less(last_tx_time', last_tx_time)
      /\ ~U32Less(last_ui_time', last_ui_time) ]_vars

\* C6 amended: a timestamp changes only by being set to the clock, more than
\* its threshold after its old value in arithmetic modulo 2^32; its value gets
\* smaller only when millis() has rolled over since it was set (the clock read
\* at the check is below the old timestamp).
C6_ForwardModuloRollover ==
  [][ /\ last_tx_time' # last_tx_time =>
           /\ last_tx_time' = now'
           /\ U32Gt(U32Sub(last_tx_time', last_tx_time), TxThreshold)
           /\ U32Less(last_tx_time', last_tx_time) => U32Less(now, last_tx_time)
      /\ last_ui_time' # last_ui_time =>
           /\ last_ui_time' = now'
           /\ U32Gt(U32Sub(last_ui_time', last_ui_time), UiThreshold)
           /\ U32Less(last_ui_time', last_ui_time) => U32Less(now, last_ui_time) ]_vars

\* a send after the rollover: the new transmit timestamp is below the old one
C6_Witness ==
  /\ it.tx_sends = 1
  /\ U32Less(last_tx_time, it.tx_last)
  /\ U32Gt(U32Sub(last_tx_time, it.tx_last), TxThreshold)

\* C7 as stated: the display check of an iteration is made at the clock value
\* of the transmit check and decides as it would have decided then, whether
\* or not the transmit scheduler fired.
C7_DisplayUndelayed ==
  it.ui_checked =>
    /\ it.ui_check = it.tx_check
    /\ it.ui_draws = 1 <=> UiDue(it.tx_check, it.ui_last)

\* what holds of every iteration for C7
C7_Checks ==
  /\ UiThreshold > TxThreshold
  /\ it.ui_checked =>
       /\ it.tx_checked
       /\ it.ui_check = it.tx_after
       /\ it.ui_draws = 1 <=> UiDue(it.ui_check, it.ui_last)
  /\ it.tx_checked =>
       it.tx_sends = 1 <=> U32Gt(U32Sub(it.tx_check, it.tx_last), TxThreshold)

\* C7 amended: the display threshold exceeds the transmit threshold; each
\* scheduler is checked in every iteration on its own timestamp; the transmit
\* step never changes last_ui_time and the display step never changes
\* last_tx_time nor the sends of the iteration; but the display check reads the
\* clock after the send has returned, so a send delays it by its duration.
C7_SeparateButDelayed ==
  /\ []C7_Checks
  /\ [][ /\ pc = "tx" => last_ui_time' = last_ui_time
         /\ pc = "ui" => /\ last_tx_time' = last_tx_time
                         /\ it'.tx_sends = it.tx_sends
                         /\ it'.sent = it.sent ]_vars

\* the send took time, and only because of it the display fired in this
\* iteration
C7_Witness ==
  /\ pc = "end"
  /\ it.tx_sends = 1 /\ it.ui_draws = 1
  /\ it.ui_check = U32Add(it.tx_check, TxLatency)
  /\ ~UiDue(it.tx_check, it.ui_last)

Halted == pc \in {"halt_oled", "halt_radio"}

\* nothing of loop() has happened: no sample, no send, no redraw
LoopUntouched ==
  /\ packet = PacketZero
  /\ it = IterIdle
  /\ last_tx_time = U32Zero /\ last_ui_time = U32Zero
  /\ twin.sends = 0
  /\ screen # "dashboard"

\* C8: a failed display or radio initialisation leaves the sketch halted for
\* good with loop() never entered: no step is possible, nothing was sampled,
\* sent or redrawn.  After a display failure the radio was never initialised
\* and the panel shows nothing; RADIO ERROR is on the panel exactly when the
\* display initialised and the radio did not.  loop() runs only with both up.
C8_FatalInitHalts ==
  /\ oled = "failed" => pc = "halt_oled" /\ radio = "pending" /\ screen = "off"
  /\ radio = "failed" => pc = "halt_radio" /\ oled = "ok"
  /\ screen = "radio_error" <=> (oled = "ok" /\ radio = "failed")
  /\ Halted => LoopUntouched /\ ~ENABLED Next
  /\ pc \in {"read", "tx", "ui", "end"} => oled = "ok" /\ radio = "ok"

\* the radio failed after the display came up: halted with RADIO ERROR shown
C8_Witness ==
  /\ pc = "halt_radio"
  /\ oled = "ok" /\ radio = "failed"
  /\ screen = "radio_error" /\ serial = "SX1280 Error"

\* C9: a run that differs only in the value of the armed flag takes the same
\* transmit decisions and hands the radio the same bytes, and the buttons byte
\* sent is the bitmask read in the same iteration.
C9_ArmedFlagAdvisory ==
  /\ twin.last_tx_time = last_tx_time
  /\ twin.sends = it.tx_sends
  /\ twin.sent = it.sent
  /\ it.tx_sends > 0 => it.sent[13] = ButtonMask(it.low)

\* both runs sent, in an iteration in which their armed flags differ
C9_Witness ==
  /\ pc = "ui"
  /\ ~local_armed_state /\ twin.armed
  /\ it.tx_sends = 1 /\ twin.sends = 1
  /\ it.low = {PIN_BTN_UP} /\ it.sent[13] = 1

\* C10: for a reading in 0..4095 on a channel that is not inverted readChannel
\* returns 1000 + (raw * 1000) div 4095, which does not decrease with the
\* reading; 0 gives 1000, 2048 gives 1500, 4095 gives 2000; inverted, 0 gives
\* 2000 and 4095 gives 1000.
C10_LinearRemap ==
  (chan.pc = "ret" /\ chan.raw \in 0 .. 4095) =>
    /\ ~chan.invert =>
         /\ chan.val = 1000 + (chan.raw * 1000) \div 4095
         /\ chan.raw > 0 => readChannel(chan.raw - 1, FALSE) <= chan.val
         /\ chan.raw = 0 => chan.val = 1000
         /\ chan.raw = 2048 => chan.val = 1500
         /\ chan.raw = 4095 => chan.val = 2000
    /\ chan.invert =>
         /\ chan.raw = 0 => chan.val = 2000
         /\ chan.raw = 4095 => chan.val = 1000

\* the call with the full-scale reading on an inverted channel has returned
C10_Witness ==
  /\ chan.pc = "ret"
  /\ chan.raw = 4095 /\ chan.invert
  /\ chan.val = 1000

\* C11: for every reading the inverted channel returns 3000 minus what the
\* channel returns without inversion, a value that is again in 1000..2000;
\* reflecting the inverted result once more gives back the non-inverted one.
C11_InversionMirrors ==
  chan.pc = "ret" =>
    LET other == readChannel(chan.raw, ~chan.invert)
    IN  /\ chan.val = 3000 - other
        /\ InUnitRange(chan.val) /\ InUnitRange(other)
        /\ chan.invert => 3000 - chan.val = readChannel(chan.raw, FALSE)
        /\ (chan.invert /\ chan.raw \in 0 .. 4095) =>
             chan.val = 2000 - (chan.raw * 1000) \div 4095

\* an inverted call with reading 1 has returned 2000: the remap truncates 1000.24
\* to 1000 before the reflection (remapping the reflected reading 4094 would
\* give 1999)
C11_Witness ==
  /\ chan.pc = "ret"
  /\ chan.raw = 1 /\ chan.invert
  /\ chan.val = 2000

\* the int16_t whose low byte is lo and whose high byte is hi
DecodeInt16(lo, hi) ==
  LET u == lo + 256 * hi
  IN  IF u >= 32768 THEN u - 65536 ELSE u

\* the fields read back from the bytes at their fixed offsets: throttle at 0,
\* roll at 2, pitch at 4, yaw at 6, knob_pitch at 8, knob_roll at 10, buttons
\* at 12 (sequences count from 1)
PacketDecode(b) ==
  [throttle   |-> DecodeInt16(b[1], b[2]),
   roll       |-> DecodeInt16(b[3], b[4]),
   pitch      |-> DecodeInt16(b[5], b[6]),
   yaw        |-> DecodeInt16(b[7], b[8]),
   knob_pitch |-> DecodeInt16(b[9], b[10]),
   knob_roll  |-> DecodeInt16(b[11], b[12]),
   buttons    |-> b[13]]

\* C12: what the radio is handed is exactly 13 bytes, each in 0..255, a function
\* of the packet alone; reading the fields back at their fixed offsets
\* (throttle, roll, pitch, yaw, knob_pitch, knob_roll as 16-bit signed values,
\* then the buttons byte) reproduces every field.
C12_EncodingRoundTrips ==
  chan.pc = "ret" =>
    /\ Len(chan.bytes) = 13
    /\ \A i \in 1 .. Len(chan.bytes) : chan.bytes[i] \in 0 .. 255
    /\ PacketDecode(chan.bytes) = packet
    /\ chan.bytes = PacketBytes(packet)

\* a packet with six different kinds of field value has been handed over:
\* throttle 1234 is the bytes 0xD2 0x04, yaw -1 is 0xFF 0xFF, knob_roll -32768
\* is 0x00 0x80
C12_Witness ==
  /\ chan.pc = "ret"
  /\ packet.throttle = 1234 /\ packet.roll = 2000 /\ packet.yaw = -1
  /\ packet.knob_roll = -32768 /\ packet.buttons = 10
  /\ chan.bytes[1] = 210 /\ chan.bytes[2] = 4
  /\ chan.bytes[7] = 255 /\ chan.bytes[8] = 255
  /\ chan.bytes[11] = 0 /\ chan.bytes[12] = 128
  /\ chan.bytes[13] = 10

\* C13: once the buttons were read, bit 0 of packet.buttons is set exactly when
\* the up pin read LOW in this iteration, bit 1 the down pin, bit 2 the arm pin,
\* bit 3 the disarm pin; bits 4..7 are zero. Whatever the byte held before
\* plays no part.
C13_ButtonBitsFollowLevels ==
  it.sampled =>
    /\ BitSet(packet.buttons, 1) <=> PIN_BTN_UP \in it.low
    /\ BitSet(packet.buttons, 2) <=> PIN_BTN_DOWN \in it.low
    /\ BitSet(packet.buttons, 4) <=> PIN_BTN_ARM \in it.low
    /\ BitSet(packet.buttons, 8) <=> PIN_BTN_DISARM \in it.low
    /\ packet.buttons \in 0 .. 15

\* a later iteration (a send has already stamped last_tx_time) in which only up
\* and disarm read LOW: the byte is 0x09
C13_Witness ==
  /\ pc = "tx"
  /\ last_tx_time # U32Zero
  /\ it.low = {PIN_BTN_UP, PIN_BTN_DISARM}
  /\ packet.buttons = 9

\* C14: the armed flag after the reads of an iteration is decided by its value
\* before them and the arm and disarm pins alone: arm only gives true, disarm
\* only gives false, neither leaves it as it was, both give false; it changes
\* nowhere else in the loop.
C14_ArmedFlagFunction ==
  /\ it.sampled =>
       LET arm == PIN_BTN_ARM \in it.low
           dis == PIN_BTN_DISARM \in it.low
       IN  /\ (arm /\ ~dis) => local_armed_state
           /\ (dis /\ ~arm) => ~local_armed_state
           /\ (~arm /\ ~dis) => local_armed_state = it.prev_armed
           /\ (arm /\ dis) => ~local_armed_state
  /\ ~it.sampled => pc \notin {"tx", "ui", "end"}

\* the flag was set and all four buttons read LOW: disarm, applied last, won
C14_Witness ==
  /\ pc = "end"
  /\ it.prev_armed /\ ~local_armed_state
  /\ it.low = ButtonPins

\* C15: a send is attempted once per firing and its result changes nothing: with
\* either result the timestamp is the clock read after the call, the bytes are
\* those of this iteration's sample, the firing was due (more than 20 ms after
\* the previous attempt, failed or not) and the loop goes on to the display
\* check; last_tx_time changes exactly in the steps that send.
C15_FailedSendNotDistinguished ==
  /\ [](it.tx_sends > 0 =>
          /\ it.tx_sends = 1
          /\ last_tx_time = it.tx_after
          /\ it.sent = PacketBytes(FreshSample)
          /\ U32Gt(U32Sub(it.tx_check, it.tx_last), TxThreshold)
          /\ pc \in {"ui", "end"})
  /\ [][ (it'.tx_sends > it.tx_sends) <=> (last_tx_time' # last_tx_time) ]_vars

\* a send that failed, in an iteration other than the first one, after which
\* the timestamp was updated and the display was redrawn
C15_Witness ==
  /\ pc = "end"
  /\ it.tx_sends = 1 /\ ~it.tx_ok
  /\ it.tx_last # U32Zero
  /\ last_tx_time = it.tx_after
  /\ it.ui_draws = 1

\* C16: for every battery reading 0..4095 the percentage drawn is in 0..100; it
\* is (V - 3.3) / 0.9 * 100 truncated, with V = raw / 4095 * 6.6, constrained
\* to 0..100: every reading at 4.2 V or more shows 100, every reading at 3.3 V
\* or less shows 0, and the percentage never decreases as the reading grows.
\* 6600 * raw - 13513500 is (V - 3.3) * 4095 * 1000, 36855 is 0.9 * 4095 * 10.
C16_BatteryPercentage ==
  chan.pc = "ret" =>
    LET pct  == chan.shown.bat_pct
        over == 6600 * chan.raw - 13513500
    IN  /\ pct \in 0 .. 100
        /\ 6600 * chan.raw >= 4200 * 4095 => pct = 100
        /\ over <= 0 => pct = 0
        /\ (over > 0 /\ 6600 * chan.raw < 4200 * 4095) => pct = over \div 36855
        /\ chan.raw > 0 => BatPct(chan.raw - 1) <= pct

\* reading 2605 is 4.1985 V, 99.84 percent: 99 is drawn
C16_Witness ==
  /\ chan.pc = "ret"
  /\ chan.raw = 2605
  /\ chan.shown.bat_pct = 99
  /\ chan.shown.status = "ARMED"

\* C17: a scheduler never fires at a check whose elapsed time is 20 ms (100 ms)
\* or less. Every send stamps last_tx_time with the clock read after it, so the
\* stamp is the reading of the previous send: the clock at the check of a send,
\* and the clock after it, are more than 20 ms past the reading of the send
\* before; the same for redraws with 100 ms.
C17_ThresholdIsMinimumSpacing ==
  /\ []((it.tx_checked /\ ~U32Gt(TxElapsed, TxThreshold)) => it.tx_sends = 0)
  /\ []((it.ui_checked /\ ~U32Gt(UiElapsed, UiThreshold)) => it.ui_draws = 0)
  /\ [][ /\ it'.tx_sends > it.tx_sends =>
               /\ U32Gt(U32Sub(now, last_tx_time), TxThreshold)
               /\ last_tx_time' = now'
               /\ U32Gt(U32Sub(last_tx_time', last_tx_time), TxThreshold)
         /\ it'.ui_draws > it.ui_draws =>
               /\ U32Gt(U32Sub(now, last_ui_time), UiThreshold)
               /\ last_ui_time' = now'
               /\ U32Gt(U32Sub(last_ui_time', last_ui_time), UiThreshold) ]_vars

\* an iteration in which both schedulers fired, each after an earlier firing of
\* its own (the dashboard was on the panel, the transmit stamp was set), the
\* redraw at the first check past 100 ms
C17_Witness ==
  /\ pc = "end"
  /\ it.tx_sends = 1 /\ it.tx_last # U32Zero
  /\ it.ui_draws = 1 /\ it.ui_last # U32Zero
  /\ ~U32Gt(UiElapsed, UiThreshold + ReadLatency)

\* C19: with checks of a scheduler at most LoopPeriodMax apart, a scheduler that
\* has fired before is never found later than its threshold plus LoopPeriodMax
\* after its previous firing, and it fires at every check where the threshold
\* is exceeded: the lateness of one firing is not carried into the next.
C19_JitterBoundedByOnePeriod ==
  /\ (it.tx_checked /\ it.tx_last # U32Zero) =>
       /\ ~U32Gt(TxElapsed, TxThreshold + LoopPeriodMax)
       /\ U32Gt(TxElapsed, TxThreshold) => it.tx_sends = 1
       /\ it.tx_sends = 1 => ~U32Gt(U32Sub(last_tx_time, it.tx_last),
                                     TxThreshold + LoopPeriodMax + TxLatency)
  /\ (it.ui_checked /\ it.ui_last # U32Zero) =>
       /\ ~U32Gt(UiElapsed, UiThreshold + LoopPeriodMax)
       /\ U32Gt(UiElapsed, UiThreshold) => it.ui_draws = 1
       /\ it.ui_draws = 1 => ~U32Gt(U32Sub(last_ui_time, it.ui_last),
                                     UiThreshold + LoopPeriodMax + DrawLatency)

\* a redraw that came later than 100 ms plus the slowest reads after the redraw
\* before it, in an iteration whose transmit check had a send behind it
C19_Witness ==
  /\ pc = "end"
  /\ it.tx_checked /\ it.tx_last # U32Zero
  /\ it.ui_draws = 1 /\ it.ui_last # U32Zero
  /\ U32Gt(UiElapsed, UiThreshold + ReadLatency)

\* a clock value as a plain integer counted from the rollover: readings in the
\* upper half of the range are the (negative) time still to go to the rollover
SinceRollover(a) ==
  IF a[1] >= Limb \div 2 THEN (a[1] - Limb) * Limb + a[2] ELSE a[1] * Limb + a[2]

\* C20: the elapsed time a check computes modulo 2^32 is the time that really
\* passed between the stamp and the check, also when millis() rolled over in
\* between; a scheduler fires at a check exactly when more than its threshold
\* really passed (never early), and a redraw or send that has an earlier one
\* behind it is not found more than LoopPeriodMax late (no stall).
C20_RolloverSafe ==
  /\ it.tx_checked =>
       LET real == SinceRollover(it.tx_check) - SinceRollover(it.tx_last)
       IN  /\ real >= 0
           /\ TxElapsed = <<0, real>>
           /\ it.tx_sends = (IF real > TxThreshold THEN 1 ELSE 0)
           /\ it.tx_last # U32Zero => real <= TxThreshold + LoopPeriodMax
  /\ it.ui_checked =>
       LET real == SinceRollover(it.ui_check) - SinceRollover(it.ui_last)
       IN  /\ real >= 0
           /\ UiElapsed = <<0, real>>
           /\ it.ui_draws = (IF real > UiThreshold THEN 1 ELSE 0)
           /\ it.ui_last # U32Zero => real <= UiThreshold + LoopPeriodMax

\* a redraw at the first check past 100 ms whose stamp was taken before the
\* rollover and whose check was made after it, in an iteration whose transmit
\* check found a stamp taken after the rollover and did not send
C20_Witness ==
  /\ pc = "end"
  /\ it.ui_draws = 1
  /\ U32Less(it.ui_check, it.ui_last)
  /\ SinceRollover(it.ui_last) < 0 /\ SinceRollover(it.ui_check) > 0
  /\ it.tx_sends = 0 /\ ~U32Less(it.tx_check, it.tx_last)

\* the time, in ms of this run, by which a check that exceeds the threshold
\* thr is reached at the latest, for a scheduler whose stamp is last
DueBy(last, thr) ==
  run - (SinceRollover(now) - SinceRollover(last)) + thr + LoopPeriodMax

\* the clock of the model has room for another pass through the reads
RoomToRead == run + ReadTick <= MaxRun

\* C18: inside loop() nothing is terminal. Every iteration that has sampled
\* comes back to the top of loop(), whatever the send returned; from the top the
\* next iteration samples; from the top the transmit scheduler fires again and
\* the display scheduler fires again. The clock of the model stops at MaxRun,
\* so each of the last three is required of the states from which the run has
\* room left for it.
C18_LoopNeverStops ==
  /\ (pc \in {"tx", "ui", "end"}) ~> (pc = "read")
  /\ (pc = "read" /\ RoomToRead) ~> (pc = "tx")
  /\ (pc = "read" /\ RoomToRead /\ DueBy(last_tx_time, TxThreshold) <= MaxRun)
       ~> (it.tx_sends = 1)
  /\ (pc = "read" /\ RoomToRead /\ DueBy(last_ui_time, UiThreshold) <= MaxRun)
       ~> (it.ui_draws = 1)

\* after a failed send in an iteration that did not redraw, the loop is back at
\* its top with room for the redraw that is still to come
C18_Witness ==
  /\ pc = "end"
  /\ it.tx_sends = 1 /\ ~it.tx_ok
  /\ it.ui_draws = 0
  /\ RoomToRead /\ DueBy(last_ui_time, UiThreshold) <= MaxRun

====
